---- MODULE Spec2Model ----
(***************************************************************************)
(* Model of the hippostomp decoders: Image.read_image and its helpers      *)
(* (src/image.py) and the batch reader Bitmap.read_images (src/bitmap.py). *)
(* Pixels are Python ints, lists are 1-based sequences (Python index k is  *)
(* position k + 1), exceptions are recorded in exc / bexc.                 *)
(***************************************************************************)
EXTENDS Integers, Sequences, FiniteSets, TLC

VARIABLES
    colour, rgba, px,                                   \* set555Pixel call
    hdr, file, pc, fileOpened, buffer, image, selfImage, exc, branch,
    tile, mosaic, pass,                                 \* Image.read_image
    includeAlpha, records, record, images, bexc, log    \* Bitmap.read_images

pixelVars == <<colour, rgba, px>>
imageVars == <<hdr, file, pc, fileOpened, buffer, image, selfImage, exc, branch,
               tile, mosaic, pass>>
batchVars == <<includeAlpha, records, record, images, bexc, log>>
vars == <<pixelVars, imageVars, batchVars>>

----------------------------------------------------------------------------
(* Python integer operators used by the decoders.                          *)

RECURSIVE AndBits(_, _)
AndBits(a, b) ==
    IF a = 0 \/ b = 0 THEN 0
    ELSE (a % 2) * (b % 2) + 2 * AndBits(a \div 2, b \div 2)

RECURSIVE OrBits(_, _)
OrBits(a, b) ==
    IF a = 0 THEN b
    ELSE IF b = 0 THEN a
    ELSE (IF a % 2 = 1 \/ b % 2 = 1 THEN 1 ELSE 0) + 2 * OrBits(a \div 2, b \div 2)

(* a & b and a | b of non-negative ints, four bits at a time.              *)
And4 == [a \in 0..15 |-> [b \in 0..15 |-> AndBits(a, b)]]

Or4 == [a \in 0..15 |-> [b \in 0..15 |-> OrBits(a, b)]]

RECURSIVE BitAnd(_, _)
BitAnd(a, b) ==
    IF a = 0 \/ b = 0 THEN 0
    ELSE And4[a % 16][b % 16] + 16 * BitAnd(a \div 16, b \div 16)

RECURSIVE BitOr(_, _)
BitOr(a, b) ==
    IF a = 0 THEN b
    ELSE IF b = 0 THEN a
    ELSE Or4[a % 16][b % 16] + 16 * BitOr(a \div 16, b \div 16)

Shl(a, n) == a * 2^n

Shr(a, n) == a \div 2^n

----------------------------------------------------------------------------
(* Image.set555Pixel / Bitmap.set555Pixel: one 16-bit sample to the packed *)
(* 32-bit word, red in the low byte and alpha in the high byte.  The word  *)
(* exceeds TLC's 32-bit signed integers, so it is held as                  *)
(* [hi |-> bits 24..31, lo |-> bits 0..23].                                *)

Black == [hi |-> 255, lo |-> 0]

WordOr(w, v) ==
    [hi |-> BitOr(w.hi, Shr(v, 24)), lo |-> BitOr(w.lo, v % 2^24)]

set555PixelGreen300(c, width) ==
    LET r == BitOr(Shr(BitAnd(c, 31744), 7), Shr(BitAnd(c, 28672), 12))
        g == BitOr(Shl(BitAnd(c, 992), 6), Shl(BitAnd(c, 768), 1))
        b == BitOr(Shl(BitAnd(c, 31), 19), Shl(BitAnd(c, 28), 14))
    IN  IF c = 63519 THEN Black
        ELSE WordOr(WordOr(WordOr(Black, r), g), b)

set555PixelNoReplicate(c, width) ==
    LET r == Shr(BitAnd(c, 31744), 7)
        g == Shl(BitAnd(c, 992), 6)
        b == Shl(BitAnd(c, 31), 19)
    IN  IF c = 63519 THEN Black
        ELSE WordOr(WordOr(WordOr(Black, r), g), b)

set555Pixel(c, width) ==
    LET r == BitOr(Shr(BitAnd(c, 31744), 7), Shr(BitAnd(c, 28672), 12))
        g == BitOr(Shl(BitAnd(c, 992), 6), Shl(BitAnd(c, 896), 1))
        b == BitOr(Shl(BitAnd(c, 31), 19), Shl(BitAnd(c, 28), 14))
    IN  IF c = 63519 THEN Black
        ELSE WordOr(WordOr(WordOr(Black, r), g), b)

(* The tuple read_image stores: Python parses pixel & 255 << 8 as          *)
(* pixel & (255 << 8); the three masks lie below bit 24 and pixel >> 24    *)
(* is the high part.                                                       *)
Unpack(pixel) ==
    << BitAnd(pixel.lo, 255),
       Shr(BitAnd(pixel.lo, Shl(255, 8)), 8),
       Shr(BitAnd(pixel.lo, Shl(255, 16)), 16),
       pixel.hi >>

Transparent == <<0, 0, 0, 0>>

----------------------------------------------------------------------------
(* Python sequence indexing.  A bytes or list index k is valid when        *)
(* -n <= k < n; a negative k addresses position n + k.                     *)

InRange(n, k) == -n <= k /\ k < n

Pos(n, k) == IF k >= 0 THEN k + 1 ELSE n + k + 1

Slice(buf, from) == SubSeq(buf, from + 1, Len(buf))

----------------------------------------------------------------------------
(* Module-level type table and Image.verify.                               *)

PlainCodes == {0, 1, 10, 12, 13}

IsometricCodes == {30}

SpriteCodes == {256, 257, 276}

get_img_type(imgType) ==
    IF imgType \in PlainCodes THEN "plain"
    ELSE IF imgType \in IsometricCodes THEN "isometric"
    ELSE IF imgType \in SpriteCodes THEN "sprite"
    ELSE "unknown"

verifyNoLength(h) == ~(h.width <= 0 \/ h.height <= 0)

verify(h) ==
    IF h.width <= 0 \/ h.height <= 0 THEN FALSE
    ELSE IF h.length <= 0 THEN FALSE
    ELSE TRUE

----------------------------------------------------------------------------
(* Image.writeTransparentImage.  st = [image, i, x, y, err]; err is set    *)
(* where Python raises IndexError.  A loop of n passes is unfolded as its  *)
(* first n \div 2 passes followed by the rest, in order, which keeps the   *)
(* evaluation shallow.                                                     *)

RECURSIVE SkipWrapStrict(_, _, _)
SkipWrapStrict(x, y, width) ==
    IF x > width THEN SkipWrapStrict(x - width, y + 1, width) ELSE <<x, y>>

RECURSIVE SkipWrap(_, _, _)
SkipWrap(x, y, width) ==
    IF x >= width THEN SkipWrap(x - width, y + 1, width) ELSE <<x, y>>

(* Body of "for j in range(c)".                                            *)
OpaquePixel(st, buf, width) ==
    IF st.err THEN st
    ELSE IF ~InRange(Len(buf), st.i) \/ ~InRange(Len(buf), st.i + 1)
         THEN [st EXCEPT !.err = TRUE]
    ELSE LET pixel == set555Pixel(BitOr(buf[st.i + 1], Shl(buf[st.i + 2], 8)), width)
             k     == (st.y * width) + st.x
             n     == Len(st.image)
             x1    == st.x + 1
         IN  IF ~InRange(n, k) THEN [st EXCEPT !.err = TRUE]
             ELSE [image |-> [st.image EXCEPT ![Pos(n, k)] = Unpack(pixel)],
                   i     |-> st.i + 2,
                   x     |-> IF x1 >= width THEN 0 ELSE x1,
                   y     |-> IF x1 >= width THEN st.y + 1 ELSE st.y,
                   err   |-> FALSE]

RECURSIVE OpaqueRun(_, _, _, _)
OpaqueRun(st, buf, c, width) ==
    IF c <= 0 \/ st.err THEN st
    ELSE IF c = 1 THEN OpaquePixel(st, buf, width)
    ELSE OpaqueRun(OpaqueRun(st, buf, c \div 2, width), buf, c - c \div 2, width)

(* Body of "while i < length".                                             *)
SpriteStep(st, buf, length, width) ==
    IF st.err \/ ~(st.i < length) THEN st
    ELSE IF ~InRange(Len(buf), st.i) THEN [st EXCEPT !.err = TRUE]
    ELSE LET c == buf[st.i + 1]
         IN  IF c = 255
             THEN IF ~InRange(Len(buf), st.i + 1)
                  THEN [st EXCEPT !.i = st.i + 1, !.err = TRUE]
                  ELSE LET xy == SkipWrap(st.x + buf[st.i + 2], st.y, width)
                       IN  [st EXCEPT !.i = st.i + 2, !.x = xy[1], !.y = xy[2]]
             ELSE OpaqueRun([st EXCEPT !.i = st.i + 1], buf, c, width)

(* The while loop, at most n passes; every pass consumes a byte, so        *)
(* length - i passes always reach its exit.                                *)
RECURSIVE SpriteLoop(_, _, _, _, _)
SpriteLoop(st, buf, length, width, n) ==
    IF n <= 0 \/ st.err \/ ~(st.i < length) THEN st
    ELSE IF n = 1 THEN SpriteStep(st, buf, length, width)
    ELSE SpriteLoop(SpriteLoop(st, buf, length, width, n \div 2),
                    buf, length, width, n - n \div 2)

writeTransparentImage(img, buf, length, width) ==
    SpriteLoop([image |-> img, i |-> 0, x |-> 0, y |-> 0, err |-> FALSE],
               buf, length, width, length)

----------------------------------------------------------------------------
(* Image.writeIsometricTile.  t = [image, i, n, off, err]: i is the byte   *)
(* cursor in the slice, n the number of slice bytes read so far, off the   *)
(* first <<row, col>> a write was aimed at outside the grid, if any.       *)

(* The cell image[((y + yOffset) * self.width) + xOffset + x] is meant to  *)
(* address: row y + yOffset, column xOffset + x of the width x height      *)
(* list built at line 126.                                                 *)
OnGrid(n, width, row, col) ==
    /\ 0 <= col /\ col < width
    /\ 0 <= row /\ row < n \div width

(* Body of "for x in range(start, end)".                                   *)
TilePixel(t, buf, x, y, xOffset, yOffset, width) ==
    IF t.err THEN t
    ELSE IF ~InRange(Len(buf), t.i + 1) \/ ~InRange(Len(buf), t.i)
         THEN [t EXCEPT !.err = TRUE]
    ELSE LET pixel == set555Pixel(BitOr(Shl(buf[t.i + 2], 8), buf[t.i + 1]), y)
             k     == ((y + yOffset) * width) + xOffset + x
             n     == Len(t.image)
             off   == IF t.off = <<>> /\ ~OnGrid(n, width, y + yOffset, xOffset + x)
                      THEN <<y + yOffset, xOffset + x>>
                      ELSE t.off
         IN  IF ~InRange(n, k) THEN [t EXCEPT !.n = t.i + 2, !.off = off, !.err = TRUE]
             ELSE [image |-> [t.image EXCEPT ![Pos(n, k)] = Unpack(pixel)],
                   i |-> t.i + 2, n |-> t.i + 2, off |-> off, err |-> FALSE]

RECURSIVE TileSpan(_, _, _, _, _, _, _, _)
TileSpan(t, buf, x, end, y, xOffset, yOffset, width) ==
    IF x >= end \/ t.err THEN t
    ELSE IF end - x = 1 THEN TilePixel(t, buf, x, y, xOffset, yOffset, width)
    ELSE LET mid == x + (end - x) \div 2
         IN  TileSpan(TileSpan(t, buf, x, mid, y, xOffset, yOffset, width),
                      buf, mid, end, y, xOffset, yOffset, width)

RECURSIVE TileUpper(_, _, _, _, _, _, _, _)
TileUpper(t, buf, y, xOffset, yOffset, tileWidth, tileHeight, width) ==
    IF y >= tileHeight \div 2 \/ t.err THEN t
    ELSE LET start == tileHeight - 2 * (y + 1)
             end   == tileWidth - start
         IN  TileUpper(TileSpan(t, buf, start, end, y, xOffset, yOffset, width),
                       buf, y + 1, xOffset, yOffset, tileWidth, tileHeight, width)

RECURSIVE TileLower(_, _, _, _, _, _, _, _)
TileLower(t, buf, y, xOffset, yOffset, tileWidth, tileHeight, width) ==
    IF y >= tileHeight \/ t.err THEN t
    ELSE LET start == 2 * y - tileHeight
             end   == tileWidth - start
         IN  TileLower(TileSpan(t, buf, start, end, y, xOffset, yOffset, width),
                       buf, y + 1, xOffset, yOffset, tileWidth, tileHeight, width)

writeIsometricTileSkipRow(img, buf, xOffset, yOffset, tileWidth, tileHeight, width) ==
    LET halfHeight == tileHeight \div 2
        t0 == [image |-> img, i |-> 0, n |-> 0, off |-> <<>>, err |-> FALSE]
        t1 == TileUpper(t0, buf, 0, xOffset, yOffset, tileWidth, tileHeight, width)
    IN  TileLower(t1, buf, halfHeight + 1, xOffset, yOffset, tileWidth, tileHeight, width)

writeIsometricTile(img, buf, xOffset, yOffset, tileWidth, tileHeight, width) ==
    LET halfHeight == tileHeight \div 2
        t0 == [image |-> img, i |-> 0, n |-> 0, off |-> <<>>, err |-> FALSE]
        t1 == TileUpper(t0, buf, 0, xOffset, yOffset, tileWidth, tileHeight, width)
    IN  TileLower(t1, buf, halfHeight, xOffset, yOffset, tileWidth, tileHeight, width)

----------------------------------------------------------------------------
(* Isometric branch of Image.read_image: tile profile, footprint check and *)
(* the base mosaic.                                                        *)

isometricTileWidth == 58

isometricTileHeight == 30

isometricTileBytes == 1800

isometricLargeTileWidth == 78

isometricLargeTileHeight == 40

isometricLargeTileBytes == 3200

BaseHeight(h) == (h.width + 2) \div 2

DeriveSizeLargeFirst(h) ==
    LET size   == h.flags3
        height == BaseHeight(h)
    IN  IF size = 0
        THEN IF height % isometricLargeTileHeight = 0
             THEN height \div isometricLargeTileHeight
             ELSE IF height % isometricTileHeight = 0 THEN height \div isometricTileHeight
             ELSE size
        ELSE size

DeriveSize(h) ==
    LET size   == h.flags3
        height == BaseHeight(h)
    IN  IF size = 0
        THEN IF height % isometricTileHeight = 0 THEN height \div isometricTileHeight
             ELSE IF height % isometricLargeTileHeight = 0
                  THEN height \div isometricLargeTileHeight
             ELSE size
        ELSE size

NoTile == [ok |-> FALSE, size |-> 0, tileBytes |-> 0, tileHeight |-> 0, tileWidth |-> 0,
           height |-> 0, yOffset |-> 0]

SelectTile(h) ==
    LET size   == DeriveSize(h)
        height == BaseHeight(h)
        known  == [NoTile EXCEPT !.size = size, !.height = height,
                                 !.yOffset = h.height - height]
    IN  IF isometricTileHeight * size = height
        THEN [known EXCEPT !.ok = TRUE, !.tileBytes = isometricTileBytes,
                           !.tileHeight = isometricTileHeight,
                           !.tileWidth = isometricTileWidth]
        ELSE IF isometricLargeTileHeight * size = height
        THEN [known EXCEPT !.ok = TRUE, !.tileBytes = isometricLargeTileBytes,
                           !.tileHeight = isometricLargeTileHeight,
                           !.tileWidth = isometricLargeTileWidth]
        ELSE known

FootprintOk(h, tl) == ~((h.width + 2) * tl.height # h.uncompressedLength)

(* m = [image, i, reads, off, err]; i counts tiles, reads logs per tile    *)
(* the start of its slice and the number of slice bytes it read, off is    *)
(* the first off-grid write target of the pass.                            *)
RECURSIVE MosaicTiles(_, _, _, _, _, _, _, _)
MosaicTiles(m, buf, x, wd, xOffset, yOffset, tl, width) ==
    IF x >= wd \/ m.err THEN m
    ELSE LET t == writeIsometricTile(m.image, Slice(buf, m.i * tl.tileBytes), xOffset,
                                     yOffset, tl.tileWidth, tl.tileHeight, width)
         IN  MosaicTiles([image |-> t.image,
                          i     |-> IF t.err THEN m.i ELSE m.i + 1,
                          reads |-> Append(m.reads, [start |-> m.i * tl.tileBytes, n |-> t.n]),
                          off   |-> IF m.off = <<>> THEN t.off ELSE m.off,
                          err   |-> t.err],
                         buf, x + 1, wd, xOffset + tl.tileWidth + 2, yOffset, tl, width)

RECURSIVE MosaicRows(_, _, _, _, _, _)
MosaicRows(m, buf, y, yOffset, tl, width) ==
    LET size == tl.size
    IN  IF y >= size + (size - 1) \/ m.err THEN m
        ELSE LET xOffset == (IF y < size THEN size - y - 1 ELSE y - size + 1) * tl.tileHeight
                 wd      == IF y < size THEN y + 1 ELSE (2 * size) - y - 1
             IN  MosaicRows(MosaicTiles(m, buf, 0, wd, xOffset, yOffset, tl, width),
                            buf, y + 1, yOffset + tl.tileHeight \div 2, tl, width)

BaseMosaicPass(img, buf, tl, width) ==
    MosaicRows([image |-> img, i |-> 0, reads |-> <<>>, off |-> <<>>, err |-> FALSE],
               buf, 0, tl.yOffset, tl, width)

(* The plain branch of Image.read_image: body of the two nested loops for  *)
(* cell n = y * width + x, and the cells lo .. hi - 1 in order.            *)
PlainPixel(st, buf, n, width) ==
    IF st.err THEN st
    ELSE IF ~InRange(Len(buf), st.i) \/ ~InRange(Len(buf), st.i + 1)
         THEN [st EXCEPT !.err = TRUE]
    ELSE LET y     == n \div width
             x     == n % width
             pixel == set555Pixel(BitOr(buf[st.i + 1], Shl(buf[st.i + 2], 8)), width)
         IN  [st EXCEPT !.image[(y * width) + x + 1] = Unpack(pixel), !.i = st.i + 2,
                        !.x = x, !.y = y]

RECURSIVE PlainLoop(_, _, _, _, _)
PlainLoop(st, buf, lo, hi, width) ==
    IF lo >= hi \/ st.err THEN st
    ELSE IF hi - lo = 1 THEN PlainPixel(st, buf, lo, width)
    ELSE LET mid == lo + (hi - lo) \div 2
         IN  PlainLoop(PlainLoop(st, buf, lo, mid, width), buf, mid, hi, width)

----------------------------------------------------------------------------
(* Records and raw-pixel files the decoders are run on.                    *)

MaxSpriteWidth == 7

MaxSeed == 2

MaxTie == 1

MaxMosaic == 2

Header(w, h, len, ulen, code, f3, alen) ==
    [width |-> w, height |-> h, length |-> len, uncompressedLength |-> ulen,
     imgCode |-> code, imgType |-> get_img_type(code), flags3 |-> f3, alphaLength |-> alen]

Repeat(pattern, n) == [k \in 1..(n * Len(pattern)) |-> pattern[((k - 1) % Len(pattern)) + 1]]

BaseBytes(n, seed) == [k \in 1..n |-> (k * (2 * seed + 1) + seed) % 256]

SampleBytes == {<<0, 0>>, <<255, 127>>, <<31, 248>>, <<52, 18>>}

SmallFile == <<2, 255, 127, 31, 248, 255, 1, 1, 52, 18>>

SmallInputs ==
    { [hdr |-> Header(w, h, len, 0, code, f3, alen), file |-> SmallFile] :
        w \in {-1, 0, 1, 2}, h \in {0, 1, 2}, len \in {0, 2, 8},
        code \in {0, 13, 256, 30, 2, 31}, f3 \in {0}, alen \in {0, 2} }

(* The run-length stream [3, s0,s1, s2,s3, s4,s5, 255, 2].                 *)
RunSkipStream(a, b, c) == <<3>> \o a \o b \o c \o <<255, 2>>

SpriteInputs ==
    { [hdr |-> Header(w, h, 9, 0, 256, 0, 0), file |-> RunSkipStream(a, b, c)] :
        w \in 5..MaxSpriteWidth, h \in {1, 2},
        a \in SampleBytes, b \in SampleBytes, c \in {<<255, 127>>, <<52, 18>>} }

(* Isometric headers over a two-byte file: geometry decides, and an        *)
(* accepted one stops at the first sample the slice does not hold.         *)
Footprint(w) == (w + 2) * ((w + 2) \div 2)

GeometryInputs ==
    { [hdr |-> Header(w, h, 2, Footprint(w) - d, 30, f3, 0), file |-> <<52, 18>>] :
        w \in {57, 58, 59, 78, 118} \cup { 240 * k - j : k \in 1..MaxTie, j \in {1, 2} },
        h \in {1, 30}, d \in {0, 1}, f3 \in {0, 1, 3, 4} }

OverlayRun(n) == <<2 * n>> \o Repeat(<<255, 127, 52, 18>>, n) \o <<255, 3>>

OverlayShort == <<2, 255, 127, 31, 248, 255, 3, 1, 0, 0>>

OverlayOffGrid == Repeat(<<255, 255>>, 130) \o <<1, 0, 0>>

(* Longer than the base layer, so that length - uncompressedLength         *)
(* exceeds uncompressedLength.                                             *)
OverlayLong(ulen) == Repeat(OverlayRun(10), ulen \div 43 + 3)

MosaicFor(w, bh, dhs, seeds, ovs) ==
    { [hdr  |-> Header(w, bh + dh, (w + 2) * bh + Len(ov), (w + 2) * bh, 30, 0, 0),
       file |-> BaseBytes((w + 2) * bh, seed) \o ov] :
        dh \in dhs, seed \in seeds, ov \in ovs }

MosaicInputs ==
    MosaicFor(58, 30, {-1, 0, 1}, 1..MaxSeed,
              {<<>>, OverlayShort, OverlayOffGrid, OverlayLong(1800)})
    \cup MosaicFor(59, 30, {0}, {1}, {<<>>, OverlayShort})
    \cup MosaicFor(78, 40, {0}, 1..MaxSeed, {<<>>, OverlayShort, OverlayLong(3200)})
    \cup UNION { MosaicFor(60 * n - 2, 30 * n, {0}, {1},
                           {OverlayShort, OverlayLong(1800 * n * n)}) : n \in 2..MaxMosaic }

(* Headers whose length disagrees with uncompressedLength.                 *)
ShortInputs ==
    { [hdr |-> Header(58, 30, len, 1800, 30, 1, alen), file |-> BaseBytes(1800, 1)] :
        len \in {100, 1801}, alen \in {0, 1700} }

Inputs == SmallInputs \cup SpriteInputs \cup GeometryInputs \cup MosaicInputs \cup ShortInputs

----------------------------------------------------------------------------
(* Image.read_image, one action per stretch of the method.                 *)

NoMosaic == [image |-> <<>>, i |-> 0, reads |-> <<>>, off |-> <<>>, err |-> FALSE]

NoPass == [image |-> <<>>, i |-> 0, x |-> 0, y |-> 0, err |-> FALSE]

PixelIdle == colour = 0 /\ rgba = [hi |-> 0, lo |-> 0] /\ px = <<>>

BatchIdle ==
    /\ includeAlpha = FALSE
    /\ records = <<>>
    /\ record = 0
    /\ images = <<>>
    /\ bexc = "none"
    /\ log = <<>>

ImageIdle ==
    /\ hdr = Header(0, 0, 0, 0, 0, 0, 0)
    /\ file = <<>>
    /\ pc = "idle"
    /\ fileOpened = FALSE
    /\ buffer = <<>>
    /\ image = <<>>
    /\ selfImage = <<>>
    /\ exc = "none"
    /\ branch = "none"
    /\ tile = NoTile
    /\ mosaic = NoMosaic
    /\ pass = NoPass

(* An Image after __init__ (read_header has resolved imgType), before      *)
(* read_image is called.  image, mosaic and pass are read_image's locals:  *)
(* the pixel list, the state of the base-mosaic loop and the state of the  *)
(* last plain or run-length loop.                                          *)
Init ==
    /\ \E inp \in Inputs : hdr = inp.hdr /\ file = inp.file
    /\ pc = "start"
    /\ fileOpened = FALSE
    /\ buffer = <<>>
    /\ image = <<>>
    /\ selfImage = <<>>
    /\ exc = "none"
    /\ branch = "none"
    /\ tile = NoTile
    /\ mosaic = NoMosaic
    /\ pass = NoPass
    /\ PixelIdle
    /\ BatchIdle

Verify ==
    /\ pc = "start"
    /\ IF verify(hdr)
       THEN pc' = "read" /\ exc' = exc
       ELSE pc' = "raised" /\ exc' = "ImageError"
    /\ UNCHANGED <<hdr, file, fileOpened, buffer, image, selfImage, branch, tile, mosaic,
                   pass, pixelVars, batchVars>>

ReadBuffer ==
    /\ pc = "read"
    /\ image' = [k \in 1..(hdr.width * hdr.height) |-> Transparent]
    /\ fileOpened' = TRUE
    /\ LET dataLength == hdr.length + hdr.alphaLength
       IN  buffer' = SubSeq(file, 1, IF dataLength < Len(file) THEN dataLength ELSE Len(file))
    /\ selfImage' = [k \in 1..(hdr.width * hdr.height) |-> Transparent]
    /\ pc' = "dispatch"
    /\ UNCHANGED <<hdr, file, exc, branch, tile, mosaic, pass, pixelVars, batchVars>>

DecodePlain ==
    /\ pc = "dispatch"
    /\ hdr.imgType = "plain"
    /\ branch' = "plain"
    /\ pass' = PlainLoop([NoPass EXCEPT !.image = image], buffer, 0,
                         hdr.width * hdr.height, hdr.width)
    /\ image' = pass'.image
    /\ IF pass'.err
       THEN pc' = "raised" /\ exc' = "IndexError"
       ELSE pc' = "putdata" /\ exc' = exc
    /\ UNCHANGED <<hdr, file, fileOpened, buffer, selfImage, tile, mosaic, pixelVars,
                   batchVars>>

SelectTileProfile ==
    /\ pc = "dispatch"
    /\ hdr.imgType = "isometric"
    /\ branch' = "isometric"
    /\ tile' = SelectTile(hdr)
    /\ pc' = IF tile'.ok /\ FootprintOk(hdr, tile') THEN "mosaic" ELSE "returned"
    /\ UNCHANGED <<hdr, file, fileOpened, buffer, image, selfImage, exc, mosaic, pass,
                   pixelVars, batchVars>>

BaseMosaic ==
    /\ pc = "mosaic"
    /\ mosaic' = BaseMosaicPass(image, buffer, tile, hdr.width)
    /\ image' = mosaic'.image
    /\ IF mosaic'.err
       THEN pc' = "raised" /\ exc' = "IndexError"
       ELSE pc' = "overlay" /\ exc' = exc
    /\ UNCHANGED <<hdr, file, fileOpened, buffer, selfImage, branch, tile, pass, pixelVars,
                   batchVars>>

Overlay ==
    /\ pc = "overlay"
    /\ pass' = writeTransparentImage(image, Slice(buffer, hdr.uncompressedLength),
                                     hdr.length - hdr.uncompressedLength, hdr.width)
    /\ image' = pass'.image
    /\ IF pass'.err
       THEN pc' = "raised" /\ exc' = "IndexError"
       ELSE pc' = "inline" /\ exc' = exc
    /\ UNCHANGED <<hdr, file, fileOpened, buffer, selfImage, branch, tile, mosaic, pixelVars,
                   batchVars>>

(* i, x, y = self.uncompressedLength, 0, 0 *)
InlineStartShifted(img, h) == [NoPass EXCEPT !.image = img, !.i = h.uncompressedLength, !.x = 1]

InlineStart(img, h) == [NoPass EXCEPT !.image = img, !.i = h.uncompressedLength]

InlineLoop ==
    /\ pc = "inline"
    /\ pass' = SpriteLoop(InlineStart(image, hdr), buffer,
                          hdr.length - hdr.uncompressedLength, hdr.width,
                          hdr.length - hdr.uncompressedLength - hdr.uncompressedLength)
    /\ image' = pass'.image
    /\ IF pass'.err
       THEN pc' = "raised" /\ exc' = "IndexError"
       ELSE pc' = "putdata" /\ exc' = exc
    /\ UNCHANGED <<hdr, file, fileOpened, buffer, selfImage, branch, tile, mosaic, pixelVars,
                   batchVars>>

DecodeSprite ==
    /\ pc = "dispatch"
    /\ hdr.imgType = "sprite"
    /\ branch' = "sprite"
    /\ pass' = writeTransparentImage(image, buffer, hdr.length, hdr.width)
    /\ image' = pass'.image
    /\ IF pass'.err
       THEN pc' = "raised" /\ exc' = "IndexError"
       ELSE pc' = "putdata" /\ exc' = exc
    /\ UNCHANGED <<hdr, file, fileOpened, buffer, selfImage, tile, mosaic, pixelVars,
                   batchVars>>

(* imgType is ImgType.unknown: no branch of the if/elif chain is taken.    *)
NoBranch ==
    /\ pc = "dispatch"
    /\ hdr.imgType \notin {"plain", "isometric", "sprite"}
    /\ pc' = "putdata"
    /\ UNCHANGED <<hdr, file, fileOpened, buffer, image, selfImage, exc, branch, tile, mosaic,
                   pass, pixelVars, batchVars>>

PutData ==
    /\ pc = "putdata"
    /\ selfImage' = image
    /\ pc' = "done"
    /\ UNCHANGED <<hdr, file, fileOpened, buffer, image, exc, branch, tile, mosaic, pass,
                   pixelVars, batchVars>>

Next ==
    \/ Verify
    \/ ReadBuffer
    \/ DecodePlain
    \/ SelectTileProfile
    \/ BaseMosaic
    \/ Overlay
    \/ InlineLoop
    \/ DecodeSprite
    \/ NoBranch
    \/ PutData

Spec == Init /\ [][Next]_vars

----------------------------------------------------------------------------
(* Bitmap.read_images: the batch reader.  A record holds the header fields *)
(* the loop reads plus data, the bytes of the .555 file from its offset.   *)
(* alpha_length is in the file only when includeAlpha is set.  The image   *)
(* under construction is the list of its 4-byte pixels.                    *)

MaxRecords == 2

to_bytes(pixel) ==
    << pixel.lo % 256, (pixel.lo \div 256) % 256, (pixel.lo \div 65536) % 256, pixel.hi >>

(* Image.frombuffer("RGBA", (width, height), image, "raw") accepts a       *)
(* buffer of at least width * height pixels.                               *)
frombuffer(width, height, pixels) == Len(pixels) >= width * height

RECURSIVE BitmapPlainLoop(_, _, _)
BitmapPlainLoop(st, buf, n) ==
    IF n = 0 \/ st.err THEN st
    ELSE IF ~InRange(Len(buf), st.i) \/ ~InRange(Len(buf), st.i + 1)
         THEN [st EXCEPT !.err = TRUE]
    ELSE BitmapPlainLoop(
             [st EXCEPT !.image = Append(st.image,
                            to_bytes(set555Pixel(BitOr(buf[st.i + 1], Shl(buf[st.i + 2], 8)), 0))),
                        !.i = st.i + 2],
             buf, n - 1)

RECURSIVE BitmapOpaqueRun(_, _, _, _)
BitmapOpaqueRun(st, buf, c, width) ==
    IF c = 0 \/ st.err THEN st
    ELSE IF ~InRange(Len(buf), st.i) \/ ~InRange(Len(buf), st.i + 1)
         THEN [st EXCEPT !.err = TRUE]
    ELSE LET x1 == st.x + 1
         IN  BitmapOpaqueRun(
                 [image |-> Append(st.image,
                                to_bytes(set555Pixel(BitOr(buf[st.i + 1], Shl(buf[st.i + 2], 8)),
                                                     width))),
                  i     |-> st.i + 2,
                  x     |-> IF x1 >= width THEN 0 ELSE x1,
                  y     |-> IF x1 >= width THEN st.y + 1 ELSE st.y,
                  err   |-> FALSE],
                 buf, c - 1, width)

RECURSIVE BitmapSpriteLoop(_, _, _, _)
BitmapSpriteLoop(st, buf, length, width) ==
    IF st.err \/ ~(st.i < length) THEN st
    ELSE IF ~InRange(Len(buf), st.i) THEN [st EXCEPT !.err = TRUE]
    ELSE LET c == buf[st.i + 1]
         IN  IF c = 255
             THEN IF ~InRange(Len(buf), st.i + 1)
                  THEN [st EXCEPT !.i = st.i + 1, !.err = TRUE]
                  ELSE LET n  == buf[st.i + 2]
                           xy == SkipWrap(st.x + n, st.y, width)
                       IN  BitmapSpriteLoop(
                               [st EXCEPT !.image = st.image \o [k \in 1..n |-> Transparent],
                                          !.i = st.i + 2, !.x = xy[1], !.y = xy[2]],
                               buf, length, width)
             ELSE BitmapSpriteLoop(BitmapOpaqueRun([st EXCEPT !.i = st.i + 1], buf, c, width),
                                   buf, length, width)

(* The isometric branch up to its two "continue"s.  size is height / 30 or *)
(* height / 40 (a float) when flags[3] is 0; the comparisons only need its *)
(* value.                                                                  *)
BitmapTileOk(r) ==
    LET size == IF r.flags3 = 0
                THEN IF r.height % isometricTileHeight = 0
                     THEN r.height \div isometricTileHeight
                     ELSE IF r.height % isometricLargeTileHeight = 0
                          THEN r.height \div isometricLargeTileHeight
                          ELSE 0
                ELSE r.flags3
    IN  \/ isometricTileHeight * size = r.height
        \/ isometricLargeTileHeight * size = r.height

BitmapFootprintOk(r) == ~((r.width + 2) * r.height # r.uncompressed_length)

AlphaLength(r) == IF includeAlpha THEN r.alpha_length ELSE 0

DataLength(r) == r.length + AlphaLength(r)

Current == records[record + 1]

BitmapBuffer(r) ==
    SubSeq(r.data, 1, IF DataLength(r) < Len(r.data) THEN DataLength(r) ELSE Len(r.data))

Record(len, alen, ulen, w, h, code, f3) ==
    [length |-> len, alpha_length |-> alen, uncompressed_length |-> ulen, width |-> w,
     height |-> h, imgType |-> code, flags3 |-> f3, data |-> <<1, 255, 127, 255, 1>>]

DummyRecord == Record(0, 0, 0, 0, 0, 0, 0)

BatchRecords ==
    { Record(len, alen, 0, 1, 1, code, 0) :
        len \in {0, 3}, alen \in {0, 3}, code \in {0, 256, 7} }
    \cup { Record(len, 0, ulen, 58, 30, 30, f3) :
             len \in {0, 3}, ulen \in {0, 1800}, f3 \in {0, 1, 2} }

RECURSIVE Batches(_)
Batches(n) ==
    IF n = 0 THEN { <<DummyRecord>> }
    ELSE { Append(b, r) : b \in Batches(n - 1), r \in BatchRecords }

InitBatch ==
    /\ includeAlpha \in BOOLEAN
    /\ records \in UNION { Batches(n) : n \in 1..MaxRecords }
    /\ record = 0
    /\ images = <<>>
    /\ bexc = "none"
    /\ log = <<>>
    /\ PixelIdle
    /\ ImageIdle

Looping == record < Len(records) /\ bexc = "none"

(* "if record == 0: continue": the first record is a dummy.                *)
SkipDummy ==
    /\ Looping
    /\ record = 0
    /\ log' = Append(log, "dummy")
    /\ record' = record + 1
    /\ UNCHANGED <<includeAlpha, records, images, bexc, pixelVars, imageVars>>

(* "if data_length <= 0: continue".                                        *)
RejectEmpty ==
    /\ Looping
    /\ record # 0
    /\ DataLength(Current) <= 0
    /\ log' = Append(log, "rejected")
    /\ record' = record + 1
    /\ UNCHANGED <<includeAlpha, records, images, bexc, pixelVars, imageVars>>

BatchPlain ==
    /\ Looping
    /\ record # 0
    /\ ~(DataLength(Current) <= 0)
    /\ Current.imgType \in PlainCodes
    /\ log' = Append(log, "Plain")
    /\ LET r  == Current
           st == BitmapPlainLoop([image |-> <<>>, i |-> 0, x |-> 0, y |-> 0, err |-> FALSE],
                                 BitmapBuffer(r), r.width * r.height)
       IN  IF st.err
           THEN bexc' = "IndexError" /\ UNCHANGED <<images, record>>
           ELSE IF ~frombuffer(r.width, r.height, st.image)
           THEN bexc' = "ValueError" /\ UNCHANGED <<images, record>>
           ELSE images' = Append(images, st.image) /\ record' = record + 1 /\ bexc' = bexc
    /\ UNCHANGED <<includeAlpha, records, pixelVars, imageVars>>

(* Past both checks the mosaic loop raises TypeError: range() is given the *)
(* float size, or the float tileHeight / 2.                                *)
BatchIsometric ==
    /\ Looping
    /\ record # 0
    /\ ~(DataLength(Current) <= 0)
    /\ Current.imgType = 30
    /\ log' = Append(log, "Isometric")
    /\ IF BitmapTileOk(Current) /\ BitmapFootprintOk(Current)
       THEN bexc' = "TypeError" /\ record' = record
       ELSE bexc' = bexc /\ record' = record + 1
    /\ UNCHANGED <<includeAlpha, records, images, pixelVars, imageVars>>

BatchSprite ==
    /\ Looping
    /\ record # 0
    /\ ~(DataLength(Current) <= 0)
    /\ Current.imgType \in SpriteCodes
    /\ log' = Append(log, "Sprite")
    /\ LET r  == Current
           st == BitmapSpriteLoop([image |-> <<>>, i |-> 0, x |-> 0, y |-> 0, err |-> FALSE],
                                  BitmapBuffer(r), r.length, r.width)
       IN  IF st.err
           THEN bexc' = "IndexError" /\ UNCHANGED <<images, record>>
           ELSE IF ~frombuffer(r.width, r.height, st.image)
           THEN bexc' = "ValueError" /\ UNCHANGED <<images, record>>
           ELSE images' = Append(images, st.image) /\ record' = record + 1 /\ bexc' = bexc
    /\ UNCHANGED <<includeAlpha, records, pixelVars, imageVars>>

(* "else: raise ValueError(f"Unknown type: {imgType}")".                   *)
BatchUnknown ==
    /\ Looping
    /\ record # 0
    /\ ~(DataLength(Current) <= 0)
    /\ Current.imgType \notin PlainCodes \cup {30} \cup SpriteCodes
    /\ log' = Append(log, "unknown")
    /\ bexc' = "ValueError"
    /\ UNCHANGED <<includeAlpha, records, record, images, pixelVars, imageVars>>

NextBatch ==
    \/ SkipDummy
    \/ RejectEmpty
    \/ BatchPlain
    \/ BatchIsometric
    \/ BatchSprite
    \/ BatchUnknown

SpecBatch == InitBatch /\ [][NextBatch]_vars

----------------------------------------------------------------------------
(* set555Pixel on its own, for every 16-bit sample the callers can form    *)
(* from two bytes.                                                         *)

Samples == 0..65535

InitPixel ==
    /\ colour \in Samples
    /\ rgba = [hi |-> 0, lo |-> 0]
    /\ px = <<>>
    /\ ImageIdle
    /\ BatchIdle

DecodeSample ==
    /\ px = <<>>
    /\ rgba' = set555Pixel(colour, 0)
    /\ px' = Unpack(rgba')
    /\ UNCHANGED <<colour, imageVars, batchVars>>

NextPixel == DecodeSample

SpecPixel == InitPixel /\ [][NextPixel]_vars

----------------------------------------------------------------------------
(* Properties of Image.read_image, set555Pixel and Bitmap.read_images.     *)

Terminal == pc \in {"done", "returned", "raised"}

(* C1: a record whose image-type code is in none of the three code lists   *)
(* never lets read_image complete normally and never ends with an image in *)
(* self.image.                                                             *)
UnknownTypeIsHardError ==
    (pc # "idle" /\ hdr.imgCode \notin PlainCodes \cup IsometricCodes \cup SpriteCodes)
        => /\ pc # "done"
           /\ Terminal => selfImage = <<>>

(* C1: read_image has completed without an exception on an unknown code    *)
(* and self.image holds an all-transparent image.                          *)
UnknownTypeFabricatesImage ==
    /\ pc = "done"
    /\ exc = "none"
    /\ hdr.imgCode = 2
    /\ branch = "none"
    /\ selfImage # <<>>
    /\ \A k \in 1..Len(selfImage) : selfImage[k] = Transparent

(* C2: with width <= 0, height <= 0 or length <= 0, read_image raises      *)
(* ImageError before the .555 file is opened and before any decoder branch *)
(* runs; no pixel list and no self.image exist for the record.             *)
VerifyRejectsBeforeOpen ==
    (pc # "idle" /\ (hdr.width <= 0 \/ hdr.height <= 0 \/ hdr.length <= 0))
        => /\ pc \in {"start", "raised"}
           /\ pc = "raised" => exc = "ImageError"
           /\ ~fileOpened
           /\ branch = "none"
           /\ image = <<>>
           /\ selfImage = <<>>
           /\ buffer = <<>>

(* C2: a record rejected for its length alone.                             *)
RejectedForLength ==
    /\ pc = "raised"
    /\ exc = "ImageError"
    /\ hdr.width > 0
    /\ hdr.height > 0
    /\ hdr.length <= 0
    /\ ~fileOpened

(* C3: an isometric record with (width + 2) * baseHeight different from    *)
(* uncompressedLength ends read_image with an exception and with no image  *)
(* in self.image.                                                          *)
FootprintMismatchRaises ==
    (/\ Terminal
     /\ verify(hdr)
     /\ hdr.imgType = "isometric"
     /\ (hdr.width + 2) * ((hdr.width + 2) \div 2) # hdr.uncompressedLength)
        => /\ pc = "raised"
           /\ selfImage = <<>>

(* C3: the tile profile was found, the footprint check failed, and         *)
(* read_image returned None with a blank image left in self.image.         *)
FootprintMismatchReturns ==
    /\ pc = "returned"
    /\ exc = "none"
    /\ tile.ok
    /\ (hdr.width + 2) * tile.height # hdr.uncompressedLength
    /\ selfImage # <<>>
    /\ \A k \in 1..Len(selfImage) : selfImage[k] = Transparent

Field(s, shift) == (s \div 2^shift) % 32

Replicate(c) == (c * 8) + (c \div 4)

(* C4: for every 16-bit sample, alpha is 255; 0xF81F gives (0,0,0,255);    *)
(* any other sample gives (c << 3) | (c >> 2) per channel, c the channel's *)
(* 5-bit field (red bits 10-14, green 5-9, blue 0-4), so bit 15 is ignored.*)
PixelChannels ==
    px # <<>>
        => /\ Len(px) = 4
           /\ px[4] = 255
           /\ colour = 63519 => px = <<0, 0, 0, 255>>
           /\ colour # 63519
                => /\ px = << Replicate(Field(colour, 10)), Replicate(Field(colour, 5)),
                              Replicate(Field(colour, 0)), 255 >>
                   /\ px = Unpack(set555Pixel(colour % 32768, 0))

(* C4: a decoded sample with bit 15 set that is not the special value.     *)
PixelHighBitDecoded ==
    /\ px # <<>>
    /\ colour = 32768 + 992
    /\ px = <<0, 255, 0, 255>>

(* C5 as stated: sample 0x7FFF unpacks to (248,248,248,255) and 0x0000 to  *)
(* (0,0,0,255).                                                            *)
WhiteIs248 ==
    px # <<>>
        => /\ colour = 32767 => px = <<248, 248, 248, 255>>
           /\ colour = 0 => px = <<0, 0, 0, 255>>

(* C5 amended: sample 0x7FFF unpacks to (255,255,255,255), the top three   *)
(* bits of each field filling the low three bits of the channel, and       *)
(* 0x0000 unpacks to (0,0,0,255).                                          *)
WhiteIs255 ==
    px # <<>>
        => /\ colour = 32767 => px = <<255, 255, 255, 255>>
           /\ colour = 0 => px = <<0, 0, 0, 255>>

(* C5: sample 0x7FFF has been decoded and unpacked.                        *)
WhiteDecoded ==
    /\ colour = 32767
    /\ rgba = [hi |-> 255, lo |-> 16777215]
    /\ px = <<255, 255, 255, 255>>

(* The sprite decoder has run over [3, s0,s1, s2,s3, s4,s5, 255, 2] on a   *)
(* grid at least 5 wide.                                                   *)
RunSkipDecoded ==
    /\ branch = "sprite"
    /\ pc \in {"putdata", "done"}
    /\ hdr.width >= 5
    /\ hdr.length = 9
    /\ Len(buffer) = 9
    /\ buffer[1] = 3
    /\ buffer[8] = 255
    /\ buffer[9] = 2

RunSkipPixels ==
    /\ \A k \in 0..2 :
         image[k + 1] = Unpack(set555Pixel(buffer[2 * k + 2] + 256 * buffer[2 * k + 3],
                                           hdr.width))
    /\ \A k \in 4..Len(image) : image[k] = Transparent
    /\ ~pass.err
    /\ pass.i = 9

(* C6 as stated: for every width >= 5 the three samples land on positions  *)
(* 0, 1, 2, positions 3 and 4 stay transparent, and the cursor ends on     *)
(* position 5 of row 0.                                                    *)
RunSkipNoWrap ==
    RunSkipDecoded
        => /\ RunSkipPixels
           /\ pass.x = 5
           /\ pass.y = 0

(* C6 amended: the three samples land on positions 0, 1, 2, positions 3    *)
(* and 4 stay transparent and the cursor ends on linear position 5; that   *)
(* is (5, 0) when width >= 6, and the wrapped (0, 1) when width = 5.       *)
RunSkipCursor ==
    RunSkipDecoded
        => /\ RunSkipPixels
           /\ (pass.y * hdr.width) + pass.x = 5
           /\ hdr.width >= 6 => pass.x = 5 /\ pass.y = 0
           /\ hdr.width = 5 => pass.x = 0 /\ pass.y = 1

(* C6: the stream decoded at width 5, cursor wrapped to the second row.    *)
RunSkipWrapped ==
    /\ RunSkipDecoded
    /\ pc = "done"
    /\ hdr.width = 5
    /\ pass.y = 1
    /\ image[3] # Transparent
    /\ selfImage = image

(* C7: with flags[3] = 0 and (width + 2) / 2 divisible by 30 and by 40,    *)
(* the isometric branch selects the regular profile (58 x 30, 1800 bytes)  *)
(* with size (width + 2) / 2 / 30.                                         *)
RegularPrecedence ==
    (/\ branch = "isometric"
     /\ hdr.flags3 = 0
     /\ ((hdr.width + 2) \div 2) % 30 = 0
     /\ ((hdr.width + 2) \div 2) % 40 = 0)
        => /\ tile.ok
           /\ tile.tileWidth = 58
           /\ tile.tileHeight = 30
           /\ tile.tileBytes = 1800
           /\ tile.size = ((hdr.width + 2) \div 2) \div 30

(* C7: baseHeight 120 resolved to four regular tiles per side.             *)
RegularChosenAt120 ==
    /\ branch = "isometric"
    /\ hdr.flags3 = 0
    /\ tile.height = 120
    /\ tile.size = 4
    /\ tile.tileHeight = 30
    /\ pc # "returned"

(* C9: when read_image completes on an isometric record, the pixel list is *)
(* the base mosaic with one sprite-decoder pass over                       *)
(* buffer[uncompressedLength:] of length - uncompressedLength bytes from   *)
(* cursor (0, 0), and self.image holds it; cells the pass does not write   *)
(* keep their base-mosaic value.                                           *)
OverlayAppliedOnce ==
    (branch = "isometric" /\ pc = "done")
        => LET once == writeTransparentImage(mosaic.image,
                                             Slice(buffer, hdr.uncompressedLength),
                                             hdr.length - hdr.uncompressedLength,
                                             hdr.width)
           IN  /\ ~once.err
               /\ image = once.image
               /\ selfImage = image

(* C9: the second inline loop has decoded runs (its start index was below  *)
(* its bound) and the overlay changed the base mosaic.                     *)
InlineLoopRan ==
    /\ branch = "isometric"
    /\ pc = "done"
    /\ hdr.uncompressedLength < hdr.length - hdr.uncompressedLength
    /\ pass.i > hdr.uncompressedLength
    /\ pass.x + pass.y > 0
    /\ image # mosaic.image

MosaicRan == branch = "isometric" /\ mosaic.reads # <<>>

TileBytesOf(tileWidth) == IF tileWidth = 58 THEN 1800 ELSE 3200

ZeroLengthRejected ==
    \A k \in 1..Len(log) :
        records[k].length = 0
            => /\ log[k] \in {"dummy", "rejected"}
               /\ k = Len(log) => bexc = "none"

(* C8: a record with length 0 went through the Plain branch and its image  *)
(* was appended.                                                           *)
ZeroLengthDecoded ==
    /\ includeAlpha
    /\ Len(log) = 2
    /\ records[2].length = 0
    /\ records[2].alpha_length > 0
    /\ log[2] = "Plain"
    /\ Len(images) = 1

(* C11: in the base-mosaic pass of a record that passed verify, the tile   *)
(* profile selection and the footprint check, every pixel write is aimed   *)
(* at a column in [0, width) and a row in [0, height), whatever the        *)
(* declared height is relative to (width + 2) / 2.                         *)
MosaicWritesOnGrid ==
    (branch = "isometric" /\ mosaic.reads # <<>>) => mosaic.off = <<>>

(* C11: the declared height is one less than (width + 2) / 2; the first    *)
(* write of the pass was aimed at row -1, Python took the negative index   *)
(* from the end of the list, and read_image completed.                     *)
MosaicWroteOffGrid ==
    /\ branch = "isometric"
    /\ pc = "done"
    /\ exc = "none"
    /\ ~mosaic.err
    /\ hdr.height = tile.height - 1
    /\ tile.yOffset = -1
    /\ mosaic.off = <<-1, 28>>
    /\ selfImage = image
    /\ image[(28 * hdr.width) + 28 + 1] # Transparent

====
